---- MODULE Spec2Model ----
(***************************************************************************)
(* Model of the user repository adapter (internal/user/repository/adapter) *)
(* and of the table "users" it writes to.  Each write operation of the     *)
(* adapter issues one statement, so it is one atomic action.  Search       *)
(* issues up to two statements (count, then page) on the pooled            *)
(* connection; other callers may run between them, so it is two steps.     *)
(***************************************************************************)
EXTENDS Integers, Sequences, FiniteSets, TLC

\* ---------------------------------------------------------------- bounds
MaxLimit == 2
MaxOffset == 1
NCallers == 2

Ids == {"u1", "u2"}
Vals == {"a", "b"}
Limits == (0 - 1) .. MaxLimit
Offsets == 0 .. MaxOffset

\* ------------------------------------------------------------- metadata
\* the record type: primary key column id, one data column email
Keys == <<"id">>
Columns == {"id", "email"}
JsonColumnMap == [k \in {"id", "email"} |-> k]
JsonKeys == {"id", "email", "unknownField"}

KeyCols == {Keys[i] : i \in 1 .. Len(Keys)}

\* ---------------------------------------------------------------- errors
Nil == "nil"
ErrDuplicate == "driver: duplicate key"
ErrSyntax == "driver: syntax error"
ErrFault == "driver: connection failure"
\* the engine errors that report a constraint violation
ConstraintErrors == {ErrDuplicate}
\* the rejection of a caller's input; nothing in the adapter constructs it
ValidationError == "ValidationError"

\* ------------------------------------------------------ partial functions
Put(f, k, v) == [x \in (DOMAIN f) \cup {k} |-> IF x = k THEN v ELSE f[x]]

Restrict(f, S) == [x \in S |-> f[x]]

Empty == [x \in {} |-> "a"]

Tables == UNION {[S -> [email : Vals]] : S \in SUBSET Ids}

\* ids of a set in ascending order (the order rows are returned in)
IdOrder == <<"u1", "u2">>

InSet(S, x) == x \in S

SortedIds(S) == SelectSeq(IdOrder, LAMBDA x : InSet(S, x))

Min(a, b) == IF a < b THEN a ELSE b

VARIABLES
  rows,     \* committed content of table users: id -> row
  txOpen,   \* a transaction handle exists (its owner attaches it to a context)
  txPut,    \* uncommitted inserts/updates of the transaction: id -> row
  txDel,    \* uncommitted deletes of the transaction
  srch,     \* the observed caller's Search between its two queries, or Idle
  last      \* the observed caller's latest returned call: what it issued and got
            \* (NoCall while it is inside Search; the writes that run meanwhile
            \* are other callers' and show only in the table)

VARIABLES
  built,    \* the metadata instances constructed so far, in order of construction
  ctor,     \* per caller: its constructor call and the component it returned
  seen      \* per caller: the metadata instance its latest operation read

dataVars == <<rows, txOpen, txPut, txDel, srch, last>>

metaVars == <<built, ctor, seen>>

vars == <<rows, txOpen, txPut, txDel, srch, last, built, ctor, seen>>

\* ------------------------------------------------------------ the engine
\* A statement: kind, SET/VALUES assignments (column -> value), and WHERE
\* conditions (column = value, AND-ed).  hasWhere: the text has a where part.
Cond(c, v) == [col |-> c, val |-> v]

Stmt(kind, set, hasWhere, where) ==
  [kind |-> kind, set |-> set, hasWhere |-> hasWhere, where |-> where]

\* "update t set  where ..", ".. where " and unknown columns are rejected
Malformed(st) ==
  \/ st.kind = "update" /\ DOMAIN st.set = {}
  \/ st.hasWhere /\ st.where = <<>>
  \/ ~(DOMAIN st.set \subseteq Columns)
  \/ \E j \in 1 .. Len(st.where) : st.where[j].col \notin Columns

Matches(st, view, i) ==
  \A j \in 1 .. Len(st.where) :
    IF st.where[j].col = "id" THEN i = st.where[j].val
    ELSE view[i].email = st.where[j].val

Hits(st, view) == {i \in DOMAIN view : Matches(st, view, i)}

ExecInsert(view, st) ==
  IF st.set.id \in DOMAIN view
  THEN [view |-> view, n |-> 0, err |-> ErrDuplicate]
  ELSE [view |-> Put(view, st.set.id, [email |-> st.set.email]), n |-> 1, err |-> Nil]

ExecUpdate(view, st) ==
  LET hit == Hits(st, view)
  IN [view |-> [i \in DOMAIN view |->
                  IF i \in hit /\ "email" \in DOMAIN st.set
                  THEN [email |-> st.set.email] ELSE view[i]],
      n |-> Cardinality(hit), err |-> Nil]

ExecDelete(view, st) ==
  LET hit == Hits(st, view)
  IN [view |-> Restrict(view, (DOMAIN view) \ hit), n |-> Cardinality(hit), err |-> Nil]

\* ExecContext on a connection or transaction whose current content is view
\* (fault: the driver fails before the engine runs the statement)
ExecContext(view, st, fault) ==
  IF fault THEN [view |-> view, n |-> 0, err |-> ErrFault]
  ELSE IF Malformed(st) THEN [view |-> view, n |-> 0, err |-> ErrSyntax]
  ELSE IF st.kind = "insert" THEN ExecInsert(view, st)
  ELSE IF st.kind = "update" THEN ExecUpdate(view, st)
  ELSE ExecDelete(view, st)

\* what the transaction sees: committed rows overlaid with its own writes
TxView ==
  [x \in ((DOMAIN rows) \ txDel) \cup (DOMAIN txPut) |->
     IF x \in DOMAIN txPut THEN txPut[x] ELSE rows[x]]

ViewOf(on) == IF on = "tx" THEN TxView ELSE rows

\* ------------------------------------------------- the adapter's helpers
\* s.GetTx(ctx, r.DB): the transaction attached to ctx, else the pool
GetTxPool(hasTx) == "db"

GetTx(hasTx) == IF hasTx THEN "tx" ELSE "db"

\* s.BuildToInsert("users", user, r.BuildParam)
BuildToInsert(user) ==
  Stmt("insert", [c \in Columns |-> IF c = "id" THEN user.id ELSE user.email], FALSE, <<>>)

\* s.BuildToUpdate("users", user, r.BuildParam)
BuildToUpdateNoWhere(user) ==
  Stmt("update", [c \in Columns \ KeyCols |-> user.email], FALSE, <<>>)

BuildToUpdate(user) ==
  Stmt("update", [c \in Columns \ KeyCols |-> user.email], TRUE, <<Cond("id", user.id)>>)

\* s.JSONToColumns(user, r.JsonColumnMap): keys without a column are dropped
JSONToColumnsKeepAll(payload) == payload

JSONToColumns(payload) ==
  LET known == (DOMAIN payload) \cap (DOMAIN JsonColumnMap)
  IN [c \in {JsonColumnMap[k] : k \in known} |->
        payload[CHOOSE k \in known : JsonColumnMap[k] = c]]

\* s.BuildToPatch("users", colMap, r.Keys, r.BuildParam)
KeyPresent(colMap, c) == c \in DOMAIN colMap

BuildToPatch(colMap) ==
  LET present == SelectSeq(Keys, LAMBDA c : KeyPresent(colMap, c))
  IN Stmt("update", Restrict(colMap, (DOMAIN colMap) \ KeyCols), TRUE,
          [j \in 1 .. Len(present) |-> Cond(present[j], colMap[present[j]])])

\* fmt.Sprintf("delete from users where id = %s", r.BuildParam(1)) with arg id
BuildDelete(id) == Stmt("delete", Empty, TRUE, <<Cond("id", id)>>)

\* if err != nil { return -1, err }; return res.RowsAffected()
ExecResultDupAsZero(res) ==
  IF res.err = ErrDuplicate THEN [n |-> 0, err |-> Nil]
  ELSE IF res.err # Nil THEN [n |-> 0 - 1, err |-> res.err]
  ELSE [n |-> res.n, err |-> Nil]

ExecResult(res) ==
  IF res.err # Nil THEN [n |-> 0 - 1, err |-> res.err]
  ELSE [n |-> res.n, err |-> Nil]

\* r.BuildQuery(filter): the base select, filtered on email when a value is given
BuildQuery(filter) ==
  IF filter = "none" THEN Stmt("select", Empty, FALSE, <<>>)
  ELSE Stmt("select", Empty, TRUE, <<Cond("email", filter)>>)

\* s.BuildCountQuery(query)
BuildCountQueryAll(query) == Stmt("count", Empty, FALSE, <<>>)

BuildCountQuery(query) == [query EXCEPT !.kind = "count"]

\* s.BuildPagingQuery(query, limit, offset)
BuildPagingQuery(query, limit, offset) ==
  [kind |-> "page", set |-> query.set, hasWhere |-> query.hasWhere,
   where |-> query.where, limit |-> limit, offset |-> offset]

\* if limit <= 0 { return users, 0, nil }
ShortCircuitNegative(limit) == limit < 0

ShortCircuit(limit) == limit <= 0

\* if err != nil || total == 0 { return users, total, err }
SkipPagedOnErr(err, total) == err # Nil

SkipPaged(err, total) == err # Nil \/ total = 0

\* r.DB.QueryRowContext(ctx, countQuery, params...): always the pool
CountConnTx(hasTx) == GetTx(hasTx)

CountConn(hasTx) == "db"

\* the result of the count query: one row holding the number of matches
QueryCount(view, q) == Cardinality(Hits(q, view))

\* the result of the paged query: the window of the matches in id order
QueryPage(view, q) ==
  LET ids == SortedIds(Hits(q, view))
      lo == q.offset + 1
      hi == Min(q.offset + q.limit, Len(ids))
  IN [j \in 1 .. (IF hi >= lo THEN hi - lo + 1 ELSE 0) |->
        [id |-> ids[lo + j - 1], email |-> view[ids[lo + j - 1]].email]]

\* ------------------------------------------------------------- call log
LogOf(on, st, err) ==
  [on |-> on, kind |-> st.kind, set |-> DOMAIN st.set,
   where |-> [j \in 1 .. Len(st.where) |-> st.where[j].col],
   hasWhere |-> st.hasWhere, err |-> err]

NoCall ==
  [op |-> "None", key |-> "none", keys |-> {}, hasTx |-> FALSE, found |-> FALSE,
   stmts |-> <<>>, changed |-> {}, n |-> 0, err |-> Nil,
   limit |-> 0, offset |-> 0, total |-> 0, users |-> <<>>, dirty |-> FALSE]

Idle ==
  [pc |-> "idle", filter |-> "none", limit |-> 0, offset |-> 0, total |-> 0,
   hasTx |-> FALSE, dirty |-> FALSE]

Users == [id : Ids, email : Vals]

\* the filters tried: none, or email equal to a value
Filters == {"none"} \cup Vals

ValsOf(k) == IF k = "id" THEN Ids ELSE IF k = "email" THEN Vals ELSE {"x"}

Payloads ==
  UNION {{p \in [S -> Ids \cup Vals \cup {"x"}] : \A k \in S : p[k] \in ValsOf(k)} :
         S \in SUBSET JsonKeys}

\* a write by another caller between the two queries of a Search in flight
Touch(newRows) ==
  IF srch.pc = "counted" /\ newRows # rows THEN [srch EXCEPT !.dirty = TRUE] ELSE srch

\* ------------------------------------------------------ the constructors
Callers == 1 .. NCallers

\* userType := reflect.TypeOf(model.User{}); s.CreateParameters(userType, db)
Metadata(kind, c) ==
  [type |-> "User", of |-> kind, by |-> c, keys |-> Keys, columns |-> Columns]

NotCalled == [pc |-> "start", kind |-> "none", inst |-> 0]

NotSeen == [comp |-> 0, inst |-> 0]

\* the embedded *s.Parameters / *search.Parameters of the component c returned
ParametersLatest(c) == Len(built)

ParametersOf(c) == ctor[c].inst

\* the adapter of caller 1 is constructed, nobody has used it yet
Init ==
  /\ rows \in Tables
  /\ txOpen = FALSE
  /\ txPut = Empty
  /\ txDel = {}
  /\ srch = Idle
  /\ last = NoCall
  /\ built = <<Metadata("adapter", 1)>>
  /\ ctor = [c \in Callers |->
              IF c = 1 THEN [pc |-> "ready", kind |-> "adapter", inst |-> 1] ELSE NotCalled]
  /\ seen = [c \in Callers |-> NotSeen]

\* the common body of Create, Update, Patch and Delete:
\*   tx := s.GetTx(ctx, r.DB); res, err := tx.ExecContext(ctx, query, args...)
Write(op, key, keys, st, hasTx, fault) ==
  \E on \in {GetTx(hasTx)} :
  \E view \in {ViewOf(on)} :
  \E res \in {ExecContext(view, st, fault)} :
  \E ret \in {ExecResult(res)} :
  \E written \in {{k \in DOMAIN res.view : k \notin DOMAIN view \/ view[k] # res.view[k]}} :
  \E removed \in {(DOMAIN view) \ (DOMAIN res.view)} :
  \E newRows \in {IF on = "db" THEN res.view ELSE rows} :
     /\ hasTx => txOpen
     /\ rows' = newRows
     /\ txPut' = IF on = "db" THEN txPut
                 ELSE [k \in ((DOMAIN txPut) \ removed) \cup written |->
                         IF k \in written THEN res.view[k] ELSE txPut[k]]
     /\ txDel' = IF on = "db" THEN txDel ELSE (txDel \ written) \cup removed
     /\ txOpen' = txOpen
     /\ UNCHANGED metaVars
     /\ srch' = Touch(newRows)
     /\ last' = IF srch.pc = "counted" THEN last
                ELSE [NoCall EXCEPT !.op = op, !.key = key, !.keys = keys,
                                    !.hasTx = hasTx, !.found = (key \in DOMAIN view),
                                    !.stmts = <<LogOf(on, st, res.err)>>,
                                    !.changed = written \cup removed,
                                    !.n = ret.n, !.err = ret.err]

CreateOf(user, hasTx, fault) ==
  Write("Create", user.id, {}, BuildToInsert(user), hasTx, fault)

UpdateOf(user, hasTx, fault) ==
  Write("Update", user.id, {}, BuildToUpdate(user), hasTx, fault)

PatchKey(payload) == IF "id" \in DOMAIN payload THEN payload.id ELSE "none"

PatchOf(payload, hasTx, fault) ==
  Write("Patch", PatchKey(payload), DOMAIN payload,
        BuildToPatch(JSONToColumns(payload)), hasTx, fault)

DeleteOf(id, hasTx, fault) ==
  Write("Delete", id, {}, BuildDelete(id), hasTx, fault)

Create == \E user \in Users, hasTx \in BOOLEAN, fault \in BOOLEAN : CreateOf(user, hasTx, fault)

Update == \E user \in Users, hasTx \in BOOLEAN, fault \in BOOLEAN : UpdateOf(user, hasTx, fault)

Patch == \E payload \in Payloads, hasTx \in BOOLEAN, fault \in BOOLEAN : PatchOf(payload, hasTx, fault)

Delete == \E id \in Ids, hasTx \in BOOLEAN, fault \in BOOLEAN : DeleteOf(id, hasTx, fault)

SearchRet(s, stmts, total, users, err) ==
  [NoCall EXCEPT !.op = "Search", !.hasTx = s.hasTx, !.stmts = stmts, !.err = err,
                 !.limit = s.limit, !.offset = s.offset, !.total = total,
                 !.users = users, !.dirty = s.dirty]

\* Search up to and including the count query
SearchCount ==
  \E filter \in Filters, limit \in Limits, offset \in Offsets,
     hasTx \in BOOLEAN, fault \in BOOLEAN :
    LET s == [Idle EXCEPT !.filter = filter, !.limit = limit, !.offset = offset,
                          !.hasTx = hasTx]
        countQuery == BuildCountQuery(BuildQuery(filter))
        err == IF fault THEN ErrFault ELSE Nil
        total == IF fault THEN 0 ELSE QueryCount(ViewOf(CountConn(hasTx)), countQuery)
    IN /\ srch.pc = "idle"
       /\ hasTx => txOpen
       /\ IF ShortCircuit(limit)
          THEN /\ last' = SearchRet(s, <<>>, 0, <<>>, Nil)
               /\ srch' = srch
          ELSE IF SkipPaged(err, total)
          THEN /\ last' = SearchRet(s, <<LogOf(CountConn(hasTx), countQuery, err)>>,
                                    total, <<>>, err)
               /\ srch' = srch
          ELSE /\ srch' = [s EXCEPT !.pc = "counted", !.total = total]
               /\ last' = NoCall
       /\ UNCHANGED <<rows, txOpen, txPut, txDel, built, ctor, seen>>

\* Search from the paged query to its return
SearchPage ==
  \E fault \in BOOLEAN :
    LET query == BuildQuery(srch.filter)
        pagingQuery == BuildPagingQuery(query, srch.limit, srch.offset)
        err == IF fault THEN ErrFault ELSE Nil
        users == IF fault THEN <<>> ELSE QueryPage(rows, pagingQuery)
    IN /\ srch.pc = "counted"
       /\ last' = SearchRet(srch, <<LogOf(CountConn(srch.hasTx), BuildCountQuery(query), Nil),
                                    LogOf("db", pagingQuery, err)>>,
                            srch.total, users, err)
       /\ srch' = Idle
       /\ UNCHANGED <<rows, txOpen, txPut, txDel, built, ctor, seen>>

\* the owner of the transaction handle: begin, commit, roll back
Begin ==
  /\ ~txOpen
  /\ txOpen' = TRUE
  /\ UNCHANGED <<rows, txPut, txDel, srch, last, built, ctor, seen>>

Commit ==
  /\ txOpen
  /\ rows' = TxView
  /\ txOpen' = FALSE
  /\ txPut' = Empty
  /\ txDel' = {}
  /\ srch' = Touch(TxView)
  /\ UNCHANGED <<last, built, ctor, seen>>

Rollback ==
  /\ txOpen
  /\ txOpen' = FALSE
  /\ txPut' = Empty
  /\ txDel' = {}
  /\ UNCHANGED <<rows, srch, last, built, ctor, seen>>

Next ==
  \/ Create
  \/ Update
  \/ Patch
  \/ Delete
  \/ SearchCount
  \/ SearchPage
  \/ Begin
  \/ Commit
  \/ Rollback

Spec == Init /\ [][Next]_vars

\* ------------------------------------------- construction of the metadata
\* before any constructor has run
MetaInit ==
  /\ rows = Empty
  /\ txOpen = FALSE
  /\ txPut = Empty
  /\ txDel = {}
  /\ srch = Idle
  /\ last = NoCall
  /\ built = <<>>
  /\ ctor = [c \in Callers |-> NotCalled]
  /\ seen = [c \in Callers |-> NotSeen]

\* NewUserAdapter up to s.CreateParameters: a fresh Parameters, or an error
NewUserAdapter ==
  \E c \in Callers, fail \in BOOLEAN :
    /\ ctor[c].pc = "start"
    /\ IF fail
       THEN /\ ctor' = [ctor EXCEPT ![c] = [pc |-> "failed", kind |-> "adapter", inst |-> 0]]
            /\ built' = built
       ELSE /\ built' = Append(built, Metadata("adapter", c))
            /\ ctor' = [ctor EXCEPT ![c] = [pc |-> "made", kind |-> "adapter",
                                            inst |-> Len(built) + 1]]
    /\ UNCHANGED <<rows, txOpen, txPut, txDel, srch, last, seen>>

\* NewUserHandler up to search.CreateParameters / core.CreateAttributes
NewUserHandler ==
  \E c \in Callers :
    /\ ctor[c].pc = "start"
    /\ built' = Append(built, Metadata("handler", c))
    /\ ctor' = [ctor EXCEPT ![c] = [pc |-> "made", kind |-> "handler",
                                    inst |-> Len(built) + 1]]
    /\ UNCHANGED <<rows, txOpen, txPut, txDel, srch, last, seen>>

\* return &UserAdapter{...} / return &UserHandler{...}: the component is usable
Return ==
  \E c \in Callers :
    /\ ctor[c].pc = "made"
    /\ ctor' = [ctor EXCEPT ![c].pc = "ready"]
    /\ UNCHANGED <<rows, txOpen, txPut, txDel, srch, last, built, seen>>

\* an operation of caller d on the component c returned reads its metadata
\* (r.Fields, r.Map, r.Keys, r.JsonColumnMap, h.Keys, h.Indexes)
Operation ==
  \E d \in Callers, c \in Callers :
    /\ ctor[c].pc = "ready"
    /\ seen' = [seen EXCEPT ![d] = [comp |-> c, inst |-> ParametersOf(c)]]
    /\ UNCHANGED <<rows, txOpen, txPut, txDel, srch, last, built, ctor>>

MetaNext ==
  \/ NewUserAdapter
  \/ NewUserHandler
  \/ Return
  \/ Operation

MetaSpec == MetaInit /\ [][MetaNext]_vars

\* ================================================================ claims
WriteOps == {"Create", "Update", "Patch", "Delete"}

KeyedOps == {"Update", "Patch", "Delete"}

Kinds(stmts) == [j \in 1 .. Len(stmts) |-> stmts[j].kind]

\* C1: a Search with limit <= 0 executes no statement (neither count nor
\* page) and returns an empty sequence, total 0 and no error; no Search
\* with such a limit is ever between its two queries.
C1_LimitShortCircuit ==
  /\ (last.op = "Search" /\ last.limit <= 0) =>
       /\ last.stmts = <<>>
       /\ last.users = <<>>
       /\ last.total = 0
       /\ last.err = Nil
  /\ srch.pc = "counted" => srch.limit > 0

C1_Witness ==
  /\ last.op = "Search"
  /\ last.limit = 0
  /\ last.stmts = <<>>
  /\ DOMAIN rows # {}

\* C2: within one Search the count query runs only when limit > 0, at most
\* once and before the paged query; when the count is 0 the paged query is
\* not run and the call returns an empty list with total 0.
C2_CountThenPage ==
  /\ last.op = "Search" =>
       /\ Kinds(last.stmts) \in {<<>>, <<"count">>, <<"count", "page">>}
       /\ last.stmts # <<>> => last.limit > 0
       /\ last.total = 0 => (Kinds(last.stmts) # <<"count", "page">> /\ last.users = <<>>)
       /\ Kinds(last.stmts) = <<"count", "page">> => last.total > 0
  /\ srch.pc = "counted" => (srch.limit > 0 /\ srch.total > 0)

C2_Witness ==
  /\ last.op = "Search"
  /\ last.limit > 0
  /\ last.err = Nil
  /\ last.total = 0
  /\ Kinds(last.stmts) = <<"count">>
  /\ DOMAIN rows # {}

\* C3 (as claimed): Patch with an empty payload returns 0 rows affected and
\* no error and issues no statement.
C3_EmptyPatchNoOp ==
  (last.op = "Patch" /\ last.keys = {}) =>
    /\ last.n = 0
    /\ last.err = Nil
    /\ last.stmts = <<>>

\* C4 (as claimed): Patch with a payload holding a key that maps to no
\* column is rejected with a ValidationError and issues no statement.
C4_UnknownKeyRejected ==
  (last.op = "Patch" /\ ~(last.keys \subseteq DOMAIN JsonColumnMap)) =>
    /\ last.err = ValidationError
    /\ last.stmts = <<>>

\* C4 (amended): Patch with a payload holding a key that maps to no column
\* does not reject it: the key is dropped, no ValidationError is returned,
\* and exactly one statement is issued whose SET list is the non-key columns
\* of the remaining keys.
C4_UnknownKeyDropped ==
  (last.op = "Patch" /\ ~(last.keys \subseteq DOMAIN JsonColumnMap)) =>
    /\ last.err # ValidationError
    /\ Len(last.stmts) = 1
    /\ last.stmts[1].set =
         {JsonColumnMap[k] : k \in last.keys \cap DOMAIN JsonColumnMap} \ KeyCols

C4_Witness ==
  /\ last.op = "Patch"
  /\ last.keys = {"id", "email", "unknownField"}
  /\ last.n = 1
  /\ last.err = Nil

\* C5: each of Create, Update, Patch and Delete executes exactly one
\* statement: on the transaction when one is attached to the context, and
\* otherwise on the pooled connection.
C5_WritesFollowTx ==
  last.op \in WriteOps =>
    /\ Len(last.stmts) = 1
    /\ last.stmts[1].on = (IF last.hasTx THEN "tx" ELSE "db")

C5_Witness ==
  /\ last.op = "Create"
  /\ last.hasTx
  /\ last.n = 1
  /\ txOpen
  /\ last.key \in DOMAIN txPut
  /\ last.key \notin DOMAIN rows

\* C6 (as claimed): Update, Patch or Delete of a key that has no row
\* returns 0 rows affected and a nil error (the driver not failing).
C6_NotFoundIsZero ==
  (last.op \in KeyedOps /\ last.key \in Ids /\ ~last.found
     /\ last.stmts[1].err # ErrFault) =>
    /\ last.n = 0
    /\ last.err = Nil

C10_TotalIsLen ==
  (last.op = "Search" /\ last.err = Nil /\ last.offset = 0 /\ last.limit >= last.total)
    => last.total = Len(last.users)

\* C10 (amended): a Search with offset 0 and limit >= total returns
\* total = len(records) when no write reaches the committed table between
\* its count query and its paged query.
C10_TotalIsLenQuiet ==
  (last.op = "Search" /\ last.err = Nil /\ last.offset = 0 /\ last.limit >= last.total
     /\ ~last.dirty)
    => last.total = Len(last.users)

C10_Witness ==
  /\ last.op = "Search"
  /\ last.err = Nil
  /\ last.offset = 0
  /\ ~last.dirty
  /\ last.total = 1
  /\ Len(last.users) = 1
  /\ Cardinality(DOMAIN rows) = 2

C12_CountOutsideTx ==
  /\ (last.op = "Search" /\ last.stmts # <<>>) =>
       (last.stmts[1].kind = "count" /\ last.stmts[1].on = "db")
  /\ (srch.pc = "counted" /\ ~srch.dirty) =>
       srch.total = QueryCount(rows, BuildCountQuery(BuildQuery(srch.filter)))
  /\ (last.op \in WriteOps /\ last.hasTx) => last.stmts[1].on = "tx"

C12_Witness ==
  /\ srch.pc = "counted"
  /\ srch.hasTx
  /\ txOpen
  /\ ~srch.dirty
  /\ srch.total # QueryCount(TxView, BuildCountQuery(BuildQuery(srch.filter)))

====
